---- MODULE Spec2Model ----
(***************************************************************************)
(* The DQN training orchestrator of rl/dqn/dqn_train.py (function main):   *)
(* the collection loop, the warm-up branch, the K optimisation steps per   *)
(* batch, the checkpoint decision, logging, the weight refresh and the     *)
(* shutdown.  The collaborators main drives (collector, prioritized replay *)
(* store, epsilon-greedy schedule, hard target updater) are modelled by    *)
(* the contract the specification gives for them.                          *)
(***************************************************************************)
EXTENDS Integers, Sequences, FiniteSets, TLC

VARIABLES
    cfg,              \* the configuration main is called with (never changes)
    pc,               \* position of main in its loop
    i,                \* enumerate index of the current batch (-1 before the first)
    j,                \* index of the optimisation step inside the batch
    num_updates,      \* optimisation steps per batch, computed before the loop
    collected_frames, \* main's frame counter
    eps,              \* greedy_module.eps, as a numerator over annealing_frames
    episodes,         \* whether the current batch holds completed episodes
    log_info,         \* keys of the log_info dict of the current iteration
    storage,          \* replay store: slot -> transition id (0: never written)
    cursor,           \* replay store: next slot to write
    prio_updated,     \* slots whose priority came from update_tensordict_priority
    prefetch_queue,   \* sample requests drawn ahead of consumption
    prefetch_started, \* whether sample() has been called at least once
    sampled,          \* sampled_tensordict of the current optimisation step
    online,           \* online network parameters (number of optimizer steps applied)
    target,           \* target network parameters (the online version last copied)
    counter,          \* HardUpdate.counter
    update_period,    \* calls of HardUpdate.step() from one copy to the next
    updater_calls,    \* number of target_net_updater.step() calls
    hard_updates,     \* number of hard-update events
    ckpt_frames,      \* collected_frames at each torch.save call, in order
    ckpt_paths,       \* the file name of each torch.save, in order
    overwritten,      \* whether a torch.save replaced an existing file
    n_sample,         \* per cycle: replay_buffer.sample calls
    n_optim,          \* per cycle: optimizer.step calls
    n_target,         \* per cycle: target_net_updater.step calls
    n_prio,           \* per cycle: update_tensordict_priority calls
    n_refresh,        \* per cycle: collector.update_policy_weights_ calls
    cycle_kind,       \* "none", "WARMUP" or "TRAIN": branch taken by the current cycle
    seen_train,       \* whether some cycle has been a TRAIN cycle
    warmup_after_train, \* whether a WARMUP cycle followed a TRAIN cycle
    last_log_step,    \* step of the last logger.log_scalar call (-1: none)
    log_failed,       \* whether a logger.log_scalar call raised
    shutdowns         \* number of collector.shutdown() calls

vars == <<cfg, num_updates, update_period, pc, i, j, collected_frames, eps, episodes, log_info, storage,
          cursor, prio_updated, prefetch_queue, prefetch_started, sampled,
          online, target, counter, updater_calls, hard_updates, ckpt_frames,
          ckpt_paths, overwritten, n_sample, n_optim, n_target, n_prio, n_refresh,
          cycle_kind, seen_train, warmup_after_train, last_log_step,
          log_failed, shutdowns>>

----------------------------------------------------------------------------
(* Bounds of the model and program constants *)

\* longest run, in batches, of the small-frame configurations
MaxBatches == 3
\* largest replay capacity of the small-frame configurations
MaxBuffer == 2
\* most sample requests the model lets run ahead of consumption
MaxAhead == 2

\* prefetch=10 of the replay buffer
prefetch == 10
\* collected_frames // 1000 in the checkpoint name
NameUnit == 1000
\* rjust(5, '0')
NameWidth == 5

Min(a, b) == IF a <= b THEN a ELSE b
Max(a, b) == IF a >= b THEN a ELSE b

----------------------------------------------------------------------------
(* Configurations *)

Cfg(fpb, total, warm, ti, bs, buf, un, ud, huf, ann, es, ee, lg, rs) ==
    [frames_per_batch |-> fpb, total_frames |-> total,
     init_random_frames |-> warm, test_interval |-> ti,
     batch_size |-> bs, buffer_size |-> buf,
     utd_num |-> un, utd_den |-> ud, hard_update_freq |-> huf,
     annealing_frames |-> ann, eps_start |-> es, eps_end |-> ee,
     logger |-> lg, use_value_rescale |-> rs]

\* Runs counted in single frames, varying the replay store: capacity and
\* frames per batch.
StoreConfigs ==
    { Cfg(f[1], f[2], 0, 2, 1, buf, 1, 1, 2, 3, 100, 10, TRUE, FALSE) :
        f \in {<<2, 4>>, <<1, MaxBatches>>}, buf \in 1..MaxBuffer }

\* Runs counted in single frames, varying the steps of the loop: batches,
\* warm-up length, batch size and update ratio.
StepConfigs ==
    { Cfg(fpb, fpb * nb, warm, 2, bs, 1, u[1], u[2], 2, 3, 100, 10, TRUE,
          FALSE) :
        fpb \in 1..2, nb \in {2, MaxBatches}, warm \in {0, 3}, bs \in 1..2,
        u \in {<<1, 1>>, <<2, 1>>, <<1, 2>>} }

\* Runs counted in single frames, varying what the steps do: target update
\* interval, annealing length, logger, value rescaling.
OptionConfigs ==
    { Cfg(2, 2 * MaxBatches, warm, 2, 1, 1, 2, 1, huf, ann, 100, 10,
          l[1], l[2]) :
        warm \in {0, 3}, huf \in 1..2, ann \in {3, 5},
        l \in {<<TRUE, FALSE>>, <<TRUE, TRUE>>, <<FALSE, FALSE>>} }

LoopConfigs == StepConfigs \cup OptionConfigs

\* Runs whose update count is a product that doubles do not hold exactly.
RoundingConfigs ==
    { Cfg(29, 58, 0, 2, 7, 1, 7, 1, 2, 3, 100, 10, TRUE, FALSE),
      Cfg(7, 14, 0, 2, 3, 1, 1, 3, 2, 3, 100, 10, TRUE, FALSE) }

\* Runs counted in thousands of frames: checkpoint boundaries and file names.
LargeConfigs ==
    { Cfg(fpb, 3 * fpb, 0, ti, fpb, 1, 1, 1, 2, 1500, 100, 10, TRUE, FALSE) :
        fpb \in {500, 1000, 1500}, ti \in {500, 2000} }
    \cup
    { Cfg(1000, 3000, w[1], w[2], 1000, 1, 1, 1, 2, 1500, 100, 10, TRUE,
          FALSE) :
        w \in {<<0, 4000>>, <<2000, 2000>>, <<20000, 2000>>} }
    \cup
    { Cfg(1000, 10000, 0, 2000, 1000, 1, 1, 1, 2, 1500, 100, 10, TRUE,
          FALSE) }

Configs == StoreConfigs \cup LoopConfigs \cup RoundingConfigs \cup LargeConfigs

----------------------------------------------------------------------------
(* Double-precision arithmetic of line 155.  A positive double is          *)
(* [m |-> its 53 mantissa bits, most significant first, e |-> the exponent *)
(* of the first bit].                                                      *)

\* bits of the mantissa of a double
MantBits == 53
\* bits of a limb of the long division and multiplication
LimbBits == 11
\* limbs of a mantissa
MantLimbs == 5

RECURSIVE Pow2(_)
Pow2(n) == IF n = 0 THEN 1 ELSE 2 * Pow2(n - 1)

Zeros(n) == [k \in 1..n |-> 0]

\* v as a bit string of the given width, most significant bit first
IntToBits(v, width) == [k \in 1..width |-> (v \div Pow2(width - k)) % 2]

\* the value of a short bit string
RECURSIVE BitsToInt(_)
BitsToInt(s) ==
    IF s = <<>> THEN 0
    ELSE 2 * BitsToInt(SubSeq(s, 1, Len(s) - 1)) + s[Len(s)]

\* a bit string with a one in it, without its leading zeros
StripZeros(s) ==
    LET first == CHOOSE k \in 1..Len(s) :
                    s[k] = 1 /\ \A h \in 1..(k - 1) : s[h] = 0
    IN SubSeq(s, first, Len(s))

\* a bit string with a zero in it, plus one
IncBits(s) ==
    LET last == CHOOSE k \in 1..Len(s) :
                    s[k] = 0 /\ \A h \in (k + 1)..Len(s) : s[h] = 1
    IN [k \in 1..Len(s) |-> IF k < last THEN s[k]
                            ELSE IF k = last THEN 1 ELSE 0]

\* round-to-nearest-even of the bit string bits (first bit 1, exponent e,
\* sticky: whether nonzero bits were dropped behind it) to a double
RoundBits(bits, sticky, e) ==
    LET all == bits \o Zeros(MantBits + 1)
        m == SubSeq(all, 1, MantBits)
        guard == all[MantBits + 1]
        rest == sticky \/ \E k \in (MantBits + 2)..Len(all) : all[k] = 1
        up == guard = 1 /\ (rest \/ m[MantBits] = 1)
    IN IF ~up THEN [m |-> m, e |-> e]
       ELSE IF \A k \in 1..MantBits : m[k] = 1
            THEN [m |-> <<1>> \o Zeros(MantBits - 1), e |-> e + 1]
            ELSE [m |-> IncBits(m), e |-> e]

\* the next n limbs of the binary expansion of rem / den (rem < den), and
\* the remainder left
RECURSIVE DivLimbs(_, _, _)
DivLimbs(rem, den, n) ==
    IF n = 0 THEN [bits |-> <<>>, rem |-> rem]
    ELSE LET t == rem * Pow2(LimbBits)
             rest == DivLimbs(t % den, den, n - 1)
         IN [bits |-> IntToBits(t \div den, LimbBits) \o rest.bits,
             rem |-> rest.rem]

\* the exponent of a / b: the e with 2^e <= a / b < 2^(e+1)
RECURSIVE ExpOf(_, _, _)
ExpOf(a, b, e) ==
    IF a >= 2 * b THEN ExpOf(a, 2 * b, e + 1)
    ELSE IF a < b THEN ExpOf(2 * a, b, e - 1)
    ELSE e

\* a / b of two positive ints: the true division, correctly rounded
FloatDiv(a, b) ==
    LET e == ExpOf(a, b, 0)
        num == IF e < 0 THEN a * Pow2(-e) ELSE a
        den == IF e > 0 THEN b * Pow2(e) ELSE b
        q == DivLimbs(num - den, den, MantLimbs)
    IN RoundBits(<<1>> \o q.bits, q.rem # 0, e)

\* the limbs of a mantissa, least significant first
Limbs(m) ==
    LET padded == Zeros(MantLimbs * LimbBits - MantBits) \o m
    IN [k \in 1..MantLimbs |->
          BitsToInt(SubSeq(padded, (MantLimbs - k) * LimbBits + 1,
                                   (MantLimbs - k + 1) * LimbBits))]

\* one term of column c of the long multiplication of two limb strings
Term(x, y, c, k) ==
    IF c - k + 1 \in 1..MantLimbs THEN x[k] * y[c - k + 1] ELSE 0

Column(x, y, c) ==
    Term(x, y, c, 1) + Term(x, y, c, 2) + Term(x, y, c, 3)
        + Term(x, y, c, 4) + Term(x, y, c, 5)

\* the bits of the product of two limb strings, most significant first
RECURSIVE ProductBits(_, _, _, _)
ProductBits(x, y, c, carry) ==
    IF c > 2 * MantLimbs \/ carry < 0 THEN <<>>
    ELSE LET t == Column(x, y, c) + carry
         IN ProductBits(x, y, c + 1, t \div Pow2(LimbBits))
                \o IntToBits(t % Pow2(LimbBits), LimbBits)

\* x * y of two doubles, correctly rounded
FloatMul(x, y) ==
    LET bits == StripZeros(ProductBits(Limbs(x.m), Limbs(y.m), 1, 0))
    IN RoundBits(bits, FALSE,
                 x.e + y.e - 2 * (MantBits - 1) + Len(bits) - 1)

\* math.ceil of a positive double
FloatCeil(x) ==
    IF x.e < 0 THEN 1
    ELSE BitsToInt(SubSeq(x.m, 1, x.e + 1))
            + (IF \E k \in (x.e + 2)..MantBits : x.m[k] = 1 THEN 1 ELSE 0)

----------------------------------------------------------------------------
(* Pure helpers of main *)

\* num_updates = math.ceil(frames_per_batch / batch_size * utd_ratio), in
\* doubles; utd_ratio is the double utd_num / utd_den
NumUpdates(c) ==
    FloatCeil(FloatMul(FloatDiv(c.frames_per_batch, c.batch_size),
                       FloatDiv(c.utd_num, c.utd_den)))

\* str(n): the decimal digits of n, most significant first
RECURSIVE Str(_)
Str(n) == IF n < 10 THEN <<n>> ELSE Append(Str(n \div 10), n % 10)

\* s.rjust(width, '0')
RECURSIVE RJust(_, _)
RJust(s, width) == IF Len(s) >= width THEN s ELSE RJust(<<0>> \o s, width)

\* the name counted in units ten times too coarse
ModelNameCoarse(frames) == RJust(Str(frames \div (10 * NameUnit)), NameWidth)

\* model_name = str(collected_frames // 1000).rjust(5, '0')
ModelName(frames) == RJust(Str(frames \div NameUnit), NameWidth)

prev_test_frame == ((i - 1) * cfg.frames_per_batch) \div cfg.test_interval
cur_test_frame == (i * cfg.frames_per_batch) \div cfg.test_interval
final == collected_frames >= cfg.total_frames

\* the save condition without the final clause
SaveConditionNoFinal == i > 0 /\ prev_test_frame < cur_test_frame

\* (i > 0 and (prev_test_frame < cur_test_frame)) or final
SaveCondition == (i > 0 /\ prev_test_frame < cur_test_frame) \/ final

----------------------------------------------------------------------------
(* Collaborators, by their contract *)

\* the collector's iterator is exhausted once its frame budget is spent
CollectorExhausted == collected_frames >= cfg.total_frames

\* data.numel() of a delivered batch
CurrentFrames == cfg.frames_per_batch

\* EGreedyModule: one annealing step; eps is kept as eps * annealing_frames
EpsOneStep(e) ==
    Max(cfg.eps_end * cfg.annealing_frames, e - (cfg.eps_start - cfg.eps_end))

\* EGreedyModule.step(frames): frames annealing steps, one after the other
RECURSIVE EpsStep(_, _)
EpsStep(e, frames) ==
    IF frames <= 0 THEN e
    ELSE IF frames = 1 THEN EpsOneStep(e)
    ELSE LET half == EpsStep(e, frames \div 2)
         IN IF half >= 0 THEN EpsStep(half, frames - frames \div 2) ELSE half

Slots == 1..cfg.buffer_size
Filled(st) == {s \in Slots : st[s] # 0}

\* round-robin writer: one transition goes to the cursor slot, which gets the
\* default priority; the cursor advances and wraps at the capacity
WriteOne(store, id) ==
    [st |-> [store.st EXCEPT ![store.cur] = id],
     cur |-> (store.cur % cfg.buffer_size) + 1,
     upd |-> store.upd \ {store.cur}]

\* replay_buffer.extend: the transitions first..first+n-1, in order
RECURSIVE Extend(_, _, _)
Extend(store, first, n) ==
    IF n <= 0 THEN store
    ELSE IF n = 1 THEN WriteOne(store, first)
    ELSE LET half == Extend(store, first, n \div 2)
         IN IF half.cur >= 1
            THEN Extend(half, first + n \div 2, n - n \div 2) ELSE half

\* the index sets a sampler draw of batch_size items (with replacement) can give
Draws == {k \in SUBSET Filled(storage) :
            k # {} /\ Cardinality(k) <= cfg.batch_size}

NoSample == [keys |-> {}, stale |-> FALSE, updates |-> 0]

\* items of samples that are drawn and have had no priority update yet
Outstanding ==
    (IF sampled.updates = 0 THEN sampled.keys ELSE {})
        \cup UNION {prefetch_queue[q].keys : q \in DOMAIN prefetch_queue}

\* a sampler draw made now
Drawn(k) == [keys |-> k, stale |-> (k \cap Outstanding) # {}, updates |-> 0]

\* HardUpdate.step(): on every update_period-th call the target parameters
\* become a copy of the online parameters
HardUpdateFires == counter + 1 = update_period

\* the periods "every fixed number of optimizer steps" allows for
\* value_network_update_interval = hard_update_freq: the copy is made on the
\* call that brings the count of calls to the interval, or on the call that
\* finds the count at the interval
UpdatePeriods == {cfg.hard_update_freq, cfg.hard_update_freq + 1}

----------------------------------------------------------------------------
(* main *)

Init ==
    /\ \E c \in Configs : cfg = c /\ num_updates = NumUpdates(c)
    /\ pc = "collect"
    /\ i = -1
    /\ j = 0
    /\ collected_frames = 0
    /\ eps = cfg.eps_start * cfg.annealing_frames
    /\ episodes = FALSE
    /\ log_info = {}
    /\ storage = [s \in Slots |-> 0]
    /\ cursor = 1
    /\ prio_updated = {}
    /\ prefetch_queue = <<>>
    /\ prefetch_started = FALSE
    /\ sampled = NoSample
    /\ online = 0
    /\ target = 0
    /\ counter = 0
    /\ update_period \in UpdatePeriods
    /\ updater_calls = 0
    /\ hard_updates = 0
    /\ ckpt_frames = <<>>
    /\ ckpt_paths = <<>>
    /\ overwritten = FALSE
    /\ n_sample = 0
    /\ n_optim = 0
    /\ n_target = 0
    /\ n_prio = 0
    /\ n_refresh = 0
    /\ cycle_kind = "none"
    /\ seen_train = FALSE
    /\ warmup_after_train = FALSE
    /\ last_log_step = -1
    /\ log_failed = FALSE
    /\ shutdowns = 0

\* the schedule stepped once per batch instead of once per frame
GreedyStepOnce == Min(1, CurrentFrames)

\* the argument of greedy_module.step
GreedyStepFrames == CurrentFrames

\* the last transition of the batch left out of the store
ExtendAllButLast == CurrentFrames - 1

\* the number of transitions of the batch handed to replay_buffer.extend
ExtendCount == CurrentFrames

\* if collected_frames < init_random_frames
IsWarmup(frames) == frames < cfg.init_random_frames

\* for i, data in enumerate(collector): ... replay_buffer.extend(data), and
\* the warm-up test
Deliver ==
    /\ pc = "collect"
    /\ ~CollectorExhausted
    /\ i' = i + 1
    /\ collected_frames' = collected_frames + CurrentFrames
    /\ eps' = EpsStep(eps, GreedyStepFrames)
    /\ \E store \in {Extend([st |-> storage, cur |-> cursor,
                              upd |-> prio_updated],
                             collected_frames + 1, ExtendCount)} :
          /\ storage' = store.st
          /\ cursor' = store.cur
          /\ prio_updated' = store.upd
    /\ \E done \in BOOLEAN :
         /\ episodes' = done
         /\ log_info' = IF done THEN {"train/episode_reward",
                                      "train/episode_length",
                                      "train/episode_weed_ratio"}
                        ELSE {}
    /\ n_sample' = 0 /\ n_optim' = 0 /\ n_target' = 0 /\ n_prio' = 0
    /\ n_refresh' = 0
    /\ j' = 0
    /\ IF IsWarmup(collected_frames')
       THEN /\ pc' = "warmup_log"
            /\ cycle_kind' = "WARMUP"
            /\ warmup_after_train' = (warmup_after_train \/ seen_train)
            /\ UNCHANGED seen_train
       ELSE /\ pc' = IF num_updates > 0 THEN "sample" ELSE "ckpt"
            /\ cycle_kind' = "TRAIN"
            /\ seen_train' = TRUE
            /\ UNCHANGED warmup_after_train
    /\ UNCHANGED <<cfg, num_updates, update_period, prefetch_queue, prefetch_started, sampled, online,
                   target, counter, updater_calls, hard_updates, ckpt_frames,
                   ckpt_paths, overwritten, last_log_step, log_failed, shutdowns>>

\* the logger.log_scalar loop, when every call succeeds
LogAll ==
    /\ last_log_step' = IF cfg.logger /\ log_info # {}
                        THEN collected_frames ELSE last_log_step
    /\ UNCHANGED log_failed

\* warm-up branch: log what there is, then continue
WarmupLog ==
    /\ pc = "warmup_log"
    /\ LogAll
    /\ pc' = "collect"
    /\ UNCHANGED <<cfg, num_updates, update_period, i, j, collected_frames, eps, episodes, log_info,
                   storage, cursor, prio_updated, prefetch_queue,
                   prefetch_started, sampled, online, target, counter,
                   updater_calls, hard_updates, ckpt_frames, ckpt_paths,
                   overwritten, n_sample, n_optim, n_target, n_prio,
                   n_refresh, cycle_kind, seen_train, warmup_after_train,
                   shutdowns>>

\* a sample request runs ahead of consumption
PrefetchDraw ==
    /\ prefetch_started
    /\ pc \notin {"done", "aborted"}
    /\ Len(prefetch_queue) < Min(prefetch, MaxAhead)
    /\ \E k \in Draws : prefetch_queue' = Append(prefetch_queue, Drawn(k))
    /\ UNCHANGED <<cfg, num_updates, update_period, pc, i, j, collected_frames, eps, episodes, log_info,
                   storage, cursor, prio_updated, prefetch_started, sampled,
                   online, target, counter, updater_calls, hard_updates,
                   ckpt_frames, ckpt_paths, overwritten, n_sample, n_optim,
                   n_target, n_prio, n_refresh, cycle_kind, seen_train,
                   warmup_after_train, last_log_step, log_failed, shutdowns>>

\* sampled_tensordict = replay_buffer.sample(batch_size)
Sample ==
    /\ pc = "sample"
    /\ IF prefetch_queue # <<>>
       THEN /\ sampled' = Head(prefetch_queue)
            /\ prefetch_queue' = Tail(prefetch_queue)
       ELSE /\ \E k \in Draws : sampled' = Drawn(k)
            /\ UNCHANGED prefetch_queue
    /\ prefetch_started' = TRUE
    /\ n_sample' = n_sample + 1
    /\ pc' = "optim"
    /\ UNCHANGED <<cfg, num_updates, update_period, i, j, collected_frames, eps, episodes, log_info,
                   storage, cursor, prio_updated, online, target, counter,
                   updater_calls, hard_updates, ckpt_frames, ckpt_paths,
                   overwritten, n_optim, n_target, n_prio, n_refresh,
                   cycle_kind, seen_train, warmup_after_train, last_log_step,
                   log_failed, shutdowns>>

\* loss, backward, clipping, optimizer.step()
OptimStep ==
    /\ pc = "optim"
    /\ online' = online + 1
    /\ n_optim' = n_optim + 1
    /\ pc' = "target"
    /\ UNCHANGED <<cfg, num_updates, update_period, i, j, collected_frames, eps, episodes, log_info,
                   storage, cursor, prio_updated, prefetch_queue,
                   prefetch_started, sampled, target, counter, updater_calls,
                   hard_updates, ckpt_frames, ckpt_paths, overwritten, n_sample,
                   n_target, n_prio, n_refresh, cycle_kind, seen_train,
                   warmup_after_train, last_log_step, log_failed, shutdowns>>

\* the updater stepped once per batch instead of once per optimizer step
CallsUpdaterOncePerBatch == j = 0

\* whether this optimisation step calls target_net_updater.step()
CallsUpdater == TRUE

\* target_net_updater.step()
TargetStep ==
    /\ pc = "target"
    /\ IF CallsUpdater
       THEN /\ updater_calls' = updater_calls + 1
            /\ n_target' = n_target + 1
            /\ IF HardUpdateFires
               THEN /\ target' = online
                    /\ counter' = 0
                    /\ hard_updates' = hard_updates + 1
               ELSE /\ counter' = counter + 1
                    /\ UNCHANGED <<target, hard_updates>>
       ELSE UNCHANGED <<updater_calls, n_target, target, counter, hard_updates>>
    /\ pc' = "priority"
    /\ UNCHANGED <<cfg, num_updates, update_period, i, j, collected_frames, eps, episodes, log_info,
                   storage, cursor, prio_updated, prefetch_queue,
                   prefetch_started, sampled, online, ckpt_frames, ckpt_paths,
                   overwritten, n_sample, n_optim, n_prio, n_refresh,
                   cycle_kind, seen_train, warmup_after_train, last_log_step,
                   log_failed, shutdowns>>

\* whether this optimisation step calls update_tensordict_priority
CallsUpdatePriority == TRUE

\* replay_buffer.update_tensordict_priority(sampled_tensordict); next j
UpdatePriority ==
    /\ pc = "priority"
    /\ IF CallsUpdatePriority
       THEN /\ sampled' = [sampled EXCEPT !.updates = @ + 1]
            /\ prio_updated' = prio_updated \cup sampled.keys
            /\ n_prio' = n_prio + 1
       ELSE UNCHANGED <<sampled, prio_updated, n_prio>>
    /\ j' = j + 1
    /\ pc' = IF j + 1 < num_updates THEN "sample" ELSE "ckpt"
    /\ UNCHANGED <<cfg, num_updates, update_period, i, collected_frames, eps, episodes, log_info, storage,
                   cursor, prefetch_queue, prefetch_started, online, target,
                   counter, updater_calls, hard_updates, ckpt_frames, ckpt_paths,
                   overwritten, n_sample, n_optim, n_target, n_refresh,
                   cycle_kind, seen_train, warmup_after_train, last_log_step,
                   log_failed, shutdowns>>

\* whether the run has saved a file of this name
SavedBefore(name) == \E a \in DOMAIN ckpt_paths : ckpt_paths[a] = name

\* log_info.update(...) and the checkpoint decision; torch.save replaces the
\* file its path holds (present): one the run saved before, or one of
\* another run, the run directory being kept if it exists and named by the
\* start second and ckpt_name only
Checkpoint ==
    /\ pc = "ckpt"
    /\ log_info' = log_info
                    \cup {"train/q_loss", "train/epsilon",
                          "train/sampling_time", "train/training_time",
                          "train/q_values"}
                    \cup (IF cfg.use_value_rescale
                          THEN {"train/q_logits"} ELSE {})
    /\ IF SaveCondition
       THEN /\ ckpt_frames' = Append(ckpt_frames, collected_frames)
            /\ ckpt_paths' = Append(ckpt_paths, ModelName(collected_frames))
            /\ \E present \in BOOLEAN :
                 /\ SavedBefore(ModelName(collected_frames)) => present
                 /\ overwritten' = (overwritten \/ present)
       ELSE UNCHANGED <<ckpt_frames, ckpt_paths, overwritten>>
    /\ pc' = "log"
    /\ UNCHANGED <<cfg, num_updates, update_period, i, j, collected_frames, eps, episodes, storage, cursor,
                   prio_updated, prefetch_queue, prefetch_started, sampled,
                   online, target, counter, updater_calls, hard_updates,
                   n_sample, n_optim, n_target, n_prio, n_refresh, cycle_kind,
                   seen_train, warmup_after_train, last_log_step, log_failed,
                   shutdowns>>

\* if logger: for key, value in log_info.items(): logger.log_scalar(...)
Log ==
    /\ pc = "log"
    /\ LogAll
    /\ pc' = "refresh"
    /\ UNCHANGED <<cfg, num_updates, update_period, i, j, collected_frames, eps, episodes, log_info,
                   storage, cursor, prio_updated, prefetch_queue,
                   prefetch_started, sampled, online, target, counter,
                   updater_calls, hard_updates, ckpt_frames, ckpt_paths,
                   overwritten, n_sample, n_optim, n_target, n_prio,
                   n_refresh, cycle_kind, seen_train, warmup_after_train,
                   shutdowns>>

\* the failing-th logger.log_scalar call of the loop raises, the ones before
\* it having been made: nothing in main catches it
LogFail ==
    /\ pc \in {"warmup_log", "log"}
    /\ cfg.logger
    /\ \E failing \in 1..Cardinality(log_info) :
         last_log_step' = IF failing > 1 THEN collected_frames
                          ELSE last_log_step
    /\ log_failed' = TRUE
    /\ pc' = "aborted"
    /\ UNCHANGED <<cfg, num_updates, update_period, i, j, collected_frames, eps, episodes, log_info,
                   storage, cursor, prio_updated, prefetch_queue,
                   prefetch_started, sampled, online, target, counter,
                   updater_calls, hard_updates, ckpt_frames, ckpt_paths,
                   overwritten, n_sample, n_optim, n_target, n_prio,
                   n_refresh, cycle_kind, seen_train, warmup_after_train,
                   shutdowns>>

\* collector.update_policy_weights_()
Refresh ==
    /\ pc = "refresh"
    /\ n_refresh' = n_refresh + 1
    /\ pc' = "collect"
    /\ UNCHANGED <<cfg, num_updates, update_period, i, j, collected_frames, eps, episodes, log_info,
                   storage, cursor, prio_updated, prefetch_queue,
                   prefetch_started, sampled, online, target, counter,
                   updater_calls, hard_updates, ckpt_frames, ckpt_paths,
                   overwritten, n_sample, n_optim, n_target, n_prio,
                   cycle_kind, seen_train, warmup_after_train, last_log_step,
                   log_failed, shutdowns>>

\* the loop is over: collector.shutdown()
Shutdown ==
    /\ pc = "collect"
    /\ CollectorExhausted
    /\ shutdowns' = shutdowns + 1
    /\ pc' = "done"
    /\ UNCHANGED <<cfg, num_updates, update_period, i, j, collected_frames, eps, episodes, log_info,
                   storage, cursor, prio_updated, prefetch_queue,
                   prefetch_started, sampled, online, target, counter,
                   updater_calls, hard_updates, ckpt_frames, ckpt_paths,
                   overwritten, n_sample, n_optim, n_target, n_prio,
                   n_refresh, cycle_kind, seen_train, warmup_after_train,
                   last_log_step, log_failed>>

\* one step of main
Main ==
    \/ Deliver
    \/ WarmupLog
    \/ Sample
    \/ OptimStep
    \/ TargetStep
    \/ UpdatePriority
    \/ Checkpoint
    \/ Log
    \/ Refresh
    \/ Shutdown

Next == Main \/ PrefetchDraw

Spec == Init /\ [][Next]_vars

\* the runs checked for termination: every loop shape, one store
FairConfigs == {c \in StepConfigs : c.batch_size = 1 /\ c.utd_den = 1}

FairInit == Init /\ cfg \in FairConfigs

NextLogFail == Next \/ LogFail

\* main is sequential code and the collector keeps delivering: an enabled
\* step of main is eventually taken; a logger.log_scalar call may raise
FairSpec == FairInit /\ [][NextLogFail]_vars /\ WF_vars(Main)

\* the same program with a logging backend that can raise
SpecLogFail == Init /\ [][NextLogFail]_vars

----------------------------------------------------------------------------
(* Claims *)

\* a cycle (one batch, whatever branch it took) is over
CycleOver == pc \in {"collect", "done"} /\ i >= 0

\* the configuration of the checkpoint example, with no warm-up skipping
IsExampleRun ==
    /\ cfg.total_frames = 10000
    /\ cfg.frames_per_batch = 1000
    /\ cfg.test_interval = 2000
    /\ cfg.init_random_frames <= cfg.frames_per_batch

\* C1: in the example run (10000 frames, batches of 1000, test interval 2000,
\* no warm-up) torch.save is called exactly five times, at collected_frames
\* 2000, 4000, 6000, 8000 and 10000.
C1_CheckpointsAtIntervalBoundaries ==
    (IsExampleRun /\ pc = "done")
        => ckpt_frames = <<2000, 4000, 6000, 8000, 10000>>

\* the iteration that exhausted the frame budget wrote a checkpoint
FinalCheckpointWritten ==
    /\ Len(ckpt_frames) > 0
    /\ ckpt_frames[Len(ckpt_frames)] = collected_frames

\* C2 (as stated): in every configuration, the iteration in which
\* collected_frames first reaches total_frames writes a checkpoint.
C2_FinalCheckpointAlways ==
    (CycleOver /\ collected_frames >= cfg.total_frames)
        => FinalCheckpointWritten

\* C2 (amended): the iteration in which collected_frames first reaches
\* total_frames writes a checkpoint, on an interval boundary or not, provided
\* that iteration is not a warm-up iteration
\* (collected_frames >= init_random_frames).
C2_FinalCheckpointUnlessWarmup ==
    (CycleOver /\ collected_frames >= cfg.total_frames
        /\ collected_frames >= cfg.init_random_frames)
        => FinalCheckpointWritten

\* a run ended on a checkpoint that no interval boundary asked for
C2_Witness ==
    /\ pc = "done"
    /\ FinalCheckpointWritten
    /\ ~(i > 0 /\ prev_test_frame < cur_test_frame)
    /\ collected_frames % cfg.test_interval # 0

\* every returned batch gets exactly one priority update, inside the
\* optimisation step that sampled it
OneUpdatePerBatch ==
    /\ sampled.updates <= 1
    /\ (pc \in {"optim", "target", "priority"}
            => (sampled.keys # {} /\ sampled.updates = 0))
    /\ ((pc \notin {"optim", "target", "priority"} /\ sampled.keys # {})
            => sampled.updates = 1)
    /\ (pc \in {"sample", "ckpt", "log", "refresh"} => n_prio = n_sample)

\* C3: every batch returned by sample gets exactly one priority
\* update, and under prefetching no returned batch was drawn while an earlier
\* sample of one of its items still waited for its priority update.
C3_NoStaleResample == OneUpdatePerBatch /\ ~sampled.stale

C5_EpsilonAnneals ==
    /\ [][cfg.eps_start >= cfg.eps_end => eps' <= eps]_vars
    /\ [](cfg.eps_start >= cfg.eps_end
            => /\ eps >= cfg.eps_end * cfg.annealing_frames
               /\ (collected_frames >= cfg.annealing_frames
                     => eps = cfg.eps_end * cfg.annealing_frames))

\* annealing ended in the middle of a batch
C5_Witness ==
    /\ collected_frames > cfg.annealing_frames
    /\ collected_frames - cfg.frames_per_batch < cfg.annealing_frames
    /\ eps = cfg.eps_end * cfg.annealing_frames
    /\ eps < cfg.eps_start * cfg.annealing_frames

\* the transitions the store holds
Stored == {storage[s] : s \in Filled(storage)}

\* C6: the store never holds more than buffer_size transitions, and holds
\* exactly the last buffer_size transitions delivered (all of them while
\* fewer were delivered), the oldest being the next to be overwritten.
C6_RingBuffer ==
    /\ Cardinality(Stored) <= cfg.buffer_size
    /\ Cardinality(Filled(storage)) = Min(cfg.buffer_size, collected_frames)
    /\ Stored = (Max(0, collected_frames - cfg.buffer_size) + 1)..collected_frames
    /\ (collected_frames >= cfg.buffer_size
          => storage[cursor] = collected_frames - cfg.buffer_size + 1)

\* more transitions than the capacity were inserted, in batches that do not
\* divide it
C6_Witness ==
    /\ cfg.buffer_size >= 2
    /\ collected_frames > cfg.buffer_size
    /\ collected_frames % cfg.buffer_size # 0
    /\ cursor # 1

\* C7: a logger.log_scalar call that raises does not abort training: main
\* goes on to the weight refresh and the next batch.
C7_LogFailureDoesNotAbort == log_failed => pc # "aborted"

\* no two checkpoint events of the run wrote to the same file name
DistinctPaths ==
    \A a, b \in DOMAIN ckpt_paths : a # b => ckpt_paths[a] # ckpt_paths[b]

\* C8 (as stated): any two checkpoint events of a run write to distinct
\* paths, for every frames_per_batch and test_interval, so no checkpoint
\* overwrites an earlier one.
C8_DistinctPathsAlways == DistinctPaths

\* C8 (amended): two checkpoint events of a run write to the same path
\* exactly when their collected_frames have the same quotient by 1000, and
\* the later one then overwrites the earlier; with frames_per_batch >= 1000
\* any two events write to distinct paths.
C8_DistinctPathsForLargeBatches ==
    /\ Len(ckpt_paths) = Len(ckpt_frames)
    /\ \A a, b \in DOMAIN ckpt_frames :
          a # b => (ckpt_paths[a] = ckpt_paths[b]
                      <=> ckpt_frames[a] \div NameUnit
                            = ckpt_frames[b] \div NameUnit)
    /\ (~DistinctPaths => overwritten)
    /\ (cfg.frames_per_batch >= NameUnit => DistinctPaths)

\* several checkpoints written by a run whose batches are not whole thousands
C8_Witness ==
    /\ cfg.frames_per_batch > NameUnit
    /\ cfg.frames_per_batch % NameUnit # 0
    /\ Len(ckpt_paths) >= 2

\* K = ceil(frames_per_batch / batch_size * utd_ratio): the least k with
\* k * batch_size >= frames_per_batch * utd_ratio
K == CHOOSE k \in 0..(cfg.frames_per_batch * cfg.utd_num) :
        /\ k * cfg.batch_size * cfg.utd_den >= cfg.frames_per_batch * cfg.utd_num
        /\ (k - 1) * cfg.batch_size * cfg.utd_den < cfg.frames_per_batch * cfg.utd_num

\* the steps of a cycle, for an update count of k
StepsPerBatch(k) ==
    /\ (i >= 0 => collected_frames \in Stored)
    /\ (i >= 0 => (cycle_kind = "WARMUP"
                     <=> collected_frames < cfg.init_random_frames))
    /\ (cycle_kind = "WARMUP"
          => n_sample + n_optim + n_target + n_prio + n_refresh = 0)
    /\ n_prio <= n_target /\ n_target <= n_optim /\ n_optim <= n_sample
    /\ n_sample <= n_prio + 1 /\ n_sample <= k
    /\ (pc \in {"ckpt", "log", "refresh"} => (n_prio = k /\ n_refresh = 0))
    /\ ((CycleOver /\ cycle_kind = "TRAIN")
          => (n_sample = k /\ n_optim = k /\ n_target = k /\ n_prio = k
              /\ n_refresh = 1))
    /\ ~warmup_after_train

\* C9: every batch is pushed to the store first; a cycle whose
\* collected_frames is below init_random_frames does no sample, optimizer
\* step, updater step, priority update or weight refresh; any other cycle
\* does exactly K of each, in that order, then exactly one weight refresh;
\* no warm-up cycle follows a training cycle.
C9_StepsPerBatch == StepsPerBatch(K)

\* C10: the loop reaches the shutdown, where collector.shutdown() is called
\* exactly once; the shutdown is not entered while collected_frames <
\* total_frames; no batch is processed and no optimizer step runs after it.
C10_Termination ==
    /\ <>(pc = "done")
    /\ [](/\ shutdowns <= 1
          /\ (pc = "done" <=> shutdowns = 1)
          /\ (shutdowns >= 1 => collected_frames >= cfg.total_frames))
    /\ [][shutdowns >= 1 => (/\ collected_frames' = collected_frames
                             /\ i' = i
                             /\ online' = online
                             /\ shutdowns' = shutdowns)]_vars

====
